---- MODULE Spec2Model ----
(***************************************************************************)
(* Model of pkg/kor/finalizers.go: the scan for namespaced objects that    *)
(* carry finalizers and a deletion timestamp, its two scanning modes       *)
(* (all-namespaces and per-namespace), the optional delete step and the    *)
(* response that is marshalled at the end.                                 *)
(***************************************************************************)
EXTENDS Integers, Sequences, FiniteSets, TLC

VARIABLES
    resourceTypes,        \* what Discovery().ServerPreferredResources() returns
    objects,              \* the cluster's objects, in the order a list call returns them
    listErrors,           \* the group/version/resources whose list call fails
    includeExcludeLists,  \* the caller's IncludeExcludeLists
    namespaces,           \* what SetNamespaceList returned
    deleteFlag,           \* opts.DeleteFlag
    pc,                   \* position in GetUnusedfinalizers
    resourceDiffs,        \* the map returned by the scan being processed
    scanErr,              \* the error returned by the last scan
    rangeNs,              \* global mode: keys of resourceDiffs still to range over
    nsIdx,                \* scoped mode: index into namespaces
    namespace,            \* the namespace being processed
    rangeTypes,           \* keys of the inner map still to range over
    response,             \* response: namespace -> resource type -> names
    outputBuffer,         \* the (namespace, map) pairs handed to FormatOutputFromMap
    listCalls,            \* log of the list calls issued
    deleteCalls,          \* log of the delete calls issued, with what each returned
    returned              \* what GetUnusedfinalizers returned: "none", "ok" or "error"

vars == <<resourceTypes, objects, listErrors, includeExcludeLists, namespaces,
          deleteFlag, pc, resourceDiffs, scanErr, rangeNs, nsIdx, namespace,
          rangeTypes, response, outputBuffer, listCalls, deleteCalls, returned>>

inputs == <<resourceTypes, objects, listErrors, includeExcludeLists, namespaces,
            deleteFlag>>

----------------------------------------------------------------------------
(* Bounds of the model.                                                    *)

\* the cluster holds at most MaxObjects objects
MaxObjects == 2

\* the discovery catalog holds at most MaxGroups group/versions
MaxGroups == 2

----------------------------------------------------------------------------
(* Values.                                                                 *)

Nil == "nil"

\* metav1.NamespaceAll
NamespaceAll == ""

EmptyMap == [k \in {} |-> <<>>]

Get(m, k, default) == IF k \in DOMAIN m THEN m[k] ELSE default

Put(m, k, v) == [x \in DOMAIN m \cup {k} |-> IF x = k THEN v ELSE m[x]]

Contains(s, e) == \E i \in 1..Len(s) : s[i] = e

Range(s) == {s[i] : i \in 1..Len(s)}

Count(s, e) == Cardinality({i \in 1..Len(s) : s[i] = e})

----------------------------------------------------------------------------
(* The collaborators the scan calls.                                       *)

\* schema.ParseGroupVersion on a group/version string, held as the sequence
\* of its "/"-separated segments: "" and "v1" and "apps/v1" parse, a string
\* with more than one "/" is an error.
ParseGroupVersion(groupVersion) ==
    IF Len(groupVersion) = 0 THEN [err |-> FALSE, group |-> "", version |-> ""]
    ELSE IF Len(groupVersion) = 1
    THEN [err |-> FALSE, group |-> "", version |-> groupVersion[1]]
    ELSE IF Len(groupVersion) = 2
    THEN [err |-> FALSE, group |-> groupVersion[1], version |-> groupVersion[2]]
    ELSE [err |-> TRUE, group |-> "", version |-> ""]

\* gv.WithResource(name)
WithResource(gv, name) ==
    [group |-> gv.group, version |-> gv.version, resource |-> name]

\* dynamicClient.Resource(gvr).Namespace(scope).List(...): an error, or the
\* objects of that resource in the scope, NamespaceAll being every namespace.
List(cluster, gvr, scope) ==
    IF gvr \in cluster.listErrors
    THEN [err |-> TRUE, Items |-> <<>>]
    ELSE [err |-> FALSE,
          Items |-> SelectSeq(cluster.objects,
                        LAMBDA o : /\ o.gvr = gvr
                                   /\ (scope = NamespaceAll \/ o.namespace = scope))]

\* HasExcludedLabel(labels, filterOpts.ExcludeLabels): the object carries, as
\* excludedLabel, whether its labels match the caller's exclusion labels.
HasExcludedLabel(item) == item.excludedLabel

\* HasIncludedAge(creationTimestamp, filterOpts): the object carries, as
\* includedAge, whether its age is inside the caller's window.
HasIncludedAge(item) == item.includedAge

----------------------------------------------------------------------------
(* The scan.                                                               *)

\* a scan that compares the label with another value
KorUsedOtherValue(labels) == Get(labels, "kor/used", "") = "yes"

\* labels["kor/used"] == "true"
KorUsed(labels) == Get(labels, "kor/used", "") = "true"

\* a predicate that takes either condition as enough
CheckFinalizersEither(finalizers, deletionTimestamp) ==
    IF Len(finalizers) > 0 \/ deletionTimestamp /= Nil THEN TRUE ELSE FALSE

CheckFinalizers(finalizers, deletionTimestamp) ==
    IF Len(finalizers) > 0 /\ deletionTimestamp /= Nil THEN TRUE ELSE FALSE

\* a scan that lists cluster-scoped resources too
ListableAnyScope(resourceType) == Contains(resourceType.Verbs, "list")

\* resourceType.Namespaced && slices.Contains(resourceType.Verbs, "list")
Listable(resourceType) ==
    resourceType.Namespaced /\ Contains(resourceType.Verbs, "list")

\* the three filters of the item loop, each a `continue`
Skipped(item) ==
    IF KorUsed(item.labels) THEN TRUE
    ELSE IF HasExcludedLabel(item) THEN TRUE
    ELSE IF ~HasIncludedAge(item) THEN TRUE
    ELSE FALSE

\* a scan that returns the error of a failed list call
ListFailedReturns(acc) == [acc EXCEPT !.err = TRUE]

\* what a failed list call leaves of the scan: the error is printed and the
\* loop continues with the next resource type
ListFailed(acc) == acc

\* an item loop that makes the namespace's inner map before it checks the
\* finalizers
VisitGlobalEagerMap(pending, typeName, item) ==
    IF Skipped(item) THEN pending
    ELSE LET inner == Get(pending, item.namespace, EmptyMap)
         IN  IF CheckFinalizers(item.finalizers, item.deletionTimestamp)
             THEN Put(pending, item.namespace,
                      Put(inner, typeName, Append(Get(inner, typeName, <<>>), item.name)))
             ELSE Put(pending, item.namespace, inner)

\* the body of the item loop, all-namespaces scan
VisitGlobal(pending, typeName, item) ==
    IF Skipped(item) THEN pending
    ELSE IF CheckFinalizers(item.finalizers, item.deletionTimestamp)
    THEN LET inner == Get(pending, item.namespace, EmptyMap)
         IN  Put(pending, item.namespace,
                 Put(inner, typeName, Append(Get(inner, typeName, <<>>), item.name)))
    ELSE pending

RECURSIVE ItemsGlobal(_, _, _, _)
ItemsGlobal(items, k, typeName, pending) ==
    IF k > Len(items) THEN pending
    ELSE ItemsGlobal(items, k + 1, typeName, VisitGlobal(pending, typeName, items[k]))

RECURSIVE ResourcesGlobal(_, _, _, _, _)
ResourcesGlobal(cluster, gv, apiResources, j, acc) ==
    IF j > Len(apiResources) \/ acc.err THEN acc
    ELSE LET resourceType == apiResources[j] IN
         IF Listable(resourceType)
         THEN LET gvr == WithResource(gv, resourceType.Name)
                  resourceList == List(cluster, gvr, NamespaceAll)
                  called == [acc EXCEPT !.calls =
                                Append(@, [gvr |-> gvr, namespace |-> NamespaceAll])]
              IN  IF resourceList.err
                  THEN ResourcesGlobal(cluster, gv, apiResources, j + 1, ListFailed(called))
                  ELSE ResourcesGlobal(cluster, gv, apiResources, j + 1,
                           [called EXCEPT !.pending =
                               ItemsGlobal(resourceList.Items, 1, resourceType.Name, @)])
         ELSE ResourcesGlobal(cluster, gv, apiResources, j + 1, acc)

RECURSIVE GroupsGlobal(_, _, _, _)
GroupsGlobal(cluster, catalog, i, acc) ==
    IF i > Len(catalog) \/ acc.err THEN acc
    ELSE LET gv == ParseGroupVersion(catalog[i].GroupVersion) IN
         IF gv.err THEN [acc EXCEPT !.err = TRUE]
         ELSE GroupsGlobal(cluster, catalog, i + 1,
                  ResourcesGlobal(cluster, gv, catalog[i].APIResources, 1, acc))

\* returns pending (namespace -> resource type -> names), err, and the list
\* calls it issued
getResourcesWithFinalizersPendingDeletion(cluster, catalog) ==
    GroupsGlobal(cluster, catalog, 1,
                 [pending |-> EmptyMap, err |-> FALSE, calls |-> <<>>])

\* the body of the item loop, one-namespace scan
VisitNamespaced(pending, typeName, item) ==
    IF Skipped(item) THEN pending
    ELSE IF CheckFinalizers(item.finalizers, item.deletionTimestamp)
    THEN Put(pending, typeName, Append(Get(pending, typeName, <<>>), item.name))
    ELSE pending

RECURSIVE ItemsNamespaced(_, _, _, _)
ItemsNamespaced(items, k, typeName, pending) ==
    IF k > Len(items) THEN pending
    ELSE ItemsNamespaced(items, k + 1, typeName,
                         VisitNamespaced(pending, typeName, items[k]))

RECURSIVE ResourcesNamespaced(_, _, _, _, _, _)
ResourcesNamespaced(cluster, ns, gv, apiResources, j, acc) ==
    IF j > Len(apiResources) \/ acc.err THEN acc
    ELSE LET resourceType == apiResources[j] IN
         IF Listable(resourceType)
         THEN LET gvr == WithResource(gv, resourceType.Name)
                  resourceList == List(cluster, gvr, ns)
                  called == [acc EXCEPT !.calls =
                                Append(@, [gvr |-> gvr, namespace |-> ns])]
              IN  IF resourceList.err
                  THEN ResourcesNamespaced(cluster, ns, gv, apiResources, j + 1,
                                           ListFailed(called))
                  ELSE ResourcesNamespaced(cluster, ns, gv, apiResources, j + 1,
                           [called EXCEPT !.pending =
                               ItemsNamespaced(resourceList.Items, 1, resourceType.Name, @)])
         ELSE ResourcesNamespaced(cluster, ns, gv, apiResources, j + 1, acc)

RECURSIVE GroupsNamespaced(_, _, _, _, _)
GroupsNamespaced(cluster, ns, catalog, i, acc) ==
    IF i > Len(catalog) \/ acc.err THEN acc
    ELSE LET gv == ParseGroupVersion(catalog[i].GroupVersion) IN
         IF gv.err THEN [acc EXCEPT !.err = TRUE]
         ELSE GroupsNamespaced(cluster, ns, catalog, i + 1,
                  ResourcesNamespaced(cluster, ns, gv, catalog[i].APIResources, 1, acc))

\* returns pending (resource type -> names), err, and the list calls it issued
getNamespacedResourcesWithFinalizersPendingDeletion(cluster, ns, catalog) ==
    GroupsNamespaced(cluster, ns, catalog, 1,
                     [pending |-> EmptyMap, err |-> FALSE, calls |-> <<>>])

----------------------------------------------------------------------------
(* The delete step's collaborators.                                        *)

\* the subsequences of a sequence
SubSeqs(s) ==
    {SelectSeq([i \in 1..Len(s) |-> <<i, s[i]>>], LAMBDA p : p[1] \in keep) :
        keep \in SUBSET (1..Len(s))}

Names(pairs) == [i \in 1..Len(pairs) |-> pairs[i][2]]

\* DeleteResource and DeleteResourceWithFinalizer return the names that were
\* not deleted (declined, or failed), in their order, and possibly an error.
DeleteOutcomes(resourceDiff) ==
    {[residual |-> Names(r), err |-> e] : r \in SubSeqs(resourceDiff), e \in BOOLEAN}

----------------------------------------------------------------------------
(* GetUnusedfinalizers.                                                    *)

Cluster == [objects |-> objects, listErrors |-> listErrors]

\* len(ExcludeListStr) == 0 && len(IncludeListStr) == 0
AllNamespacesMode ==
    /\ Len(includeExcludeLists.ExcludeListStr) = 0
    /\ Len(includeExcludeLists.IncludeListStr) = 0

\* both modes calling the plain delete
DeleteFunctionPlain(allNamespaces) == "DeleteResource"

\* the delete call of each mode
DeleteFunction(allNamespaces) ==
    IF allNamespaces THEN "DeleteResourceWithFinalizer" ELSE "DeleteResource"

\* if opts.DeleteFlag { ... }
DeleteRequested(flag) == flag

\* the all-namespaces scan; its error is printed and its map is ranged over
ScanAll ==
    /\ pc = "start"
    /\ AllNamespacesMode
    /\ LET r == getResourcesWithFinalizersPendingDeletion(Cluster, resourceTypes)
       IN  /\ resourceDiffs' = r.pending
           /\ scanErr' = r.err
           /\ listCalls' = listCalls \o r.calls
           /\ rangeNs' = DOMAIN r.pending
    /\ pc' = "globalLoop"
    /\ UNCHANGED <<inputs, nsIdx, namespace, rangeTypes, response, outputBuffer,
                   deleteCalls, returned>>

\* for namespace, data := range resourceDiffs, in any order
RangeNamespace ==
    /\ pc = "globalLoop"
    /\ \E ns \in rangeNs :
          /\ rangeNs' = rangeNs \ {ns}
          /\ IF Contains(namespaces, ns)
             THEN /\ namespace' = ns
                  /\ rangeTypes' = DOMAIN resourceDiffs[ns]
                  /\ pc' = "globalTypes"
             ELSE UNCHANGED <<namespace, rangeTypes, pc>>
    /\ UNCHANGED <<inputs, resourceDiffs, scanErr, nsIdx, response, outputBuffer,
                   listCalls, deleteCalls, returned>>

\* for resourceType, resourceDiff := range data: the delete call's result is
\* assigned to the loop variable resourceDiff, not to the map
DeleteWithFinalizer ==
    /\ pc = "globalTypes"
    /\ \E resourceType \in rangeTypes :
          /\ rangeTypes' = rangeTypes \ {resourceType}
          /\ IF DeleteRequested(deleteFlag)
             THEN \E outcome \in DeleteOutcomes(resourceDiffs[namespace][resourceType]) :
                     deleteCalls' = Append(deleteCalls,
                        [fn |-> DeleteFunction(TRUE),
                         namespace |-> namespace,
                         resourceType |-> resourceType,
                         names |-> resourceDiffs[namespace][resourceType],
                         residual |-> outcome.residual,
                         err |-> outcome.err])
             ELSE UNCHANGED deleteCalls
    /\ UNCHANGED <<inputs, pc, resourceDiffs, scanErr, rangeNs, nsIdx, namespace,
                   response, outputBuffer, listCalls, returned>>

\* FormatOutputFromMap(namespace, data, opts); response[namespace] = data
StoreNamespace ==
    /\ pc = "globalTypes"
    /\ rangeTypes = {}
    /\ outputBuffer' = Append(outputBuffer,
                          [namespace |-> namespace, data |-> resourceDiffs[namespace]])
    /\ response' = Put(response, namespace, resourceDiffs[namespace])
    /\ pc' = "globalLoop"
    /\ UNCHANGED <<inputs, resourceDiffs, scanErr, rangeNs, nsIdx, namespace,
                   rangeTypes, listCalls, deleteCalls, returned>>

\* for _, namespace := range namespaces: the scan of one namespace; on an
\* error the namespace is skipped
ScanNamespace ==
    /\ pc \in {"start", "scopedLoop"}
    /\ ~AllNamespacesMode
    /\ nsIdx <= Len(namespaces)
    /\ LET ns == namespaces[nsIdx]
           r == getNamespacedResourcesWithFinalizersPendingDeletion(
                    Cluster, ns, resourceTypes)
       IN  /\ listCalls' = listCalls \o r.calls
           /\ scanErr' = r.err
           /\ resourceDiffs' = r.pending
           /\ namespace' = ns
           /\ IF r.err
              THEN /\ nsIdx' = nsIdx + 1
                   /\ pc' = "scopedLoop"
                   /\ UNCHANGED rangeTypes
              ELSE /\ rangeTypes' = DOMAIN r.pending
                   /\ pc' = "scopedTypes"
                   /\ UNCHANGED nsIdx
    /\ UNCHANGED <<inputs, rangeNs, response, outputBuffer, deleteCalls, returned>>

\* for resourceType, resourceDiff := range resourceDiffs: as in the other mode
DeletePlain ==
    /\ pc = "scopedTypes"
    /\ \E resourceType \in rangeTypes :
          /\ rangeTypes' = rangeTypes \ {resourceType}
          /\ IF DeleteRequested(deleteFlag)
             THEN \E outcome \in DeleteOutcomes(resourceDiffs[resourceType]) :
                     deleteCalls' = Append(deleteCalls,
                        [fn |-> DeleteFunction(FALSE),
                         namespace |-> namespace,
                         resourceType |-> resourceType,
                         names |-> resourceDiffs[resourceType],
                         residual |-> outcome.residual,
                         err |-> outcome.err])
             ELSE UNCHANGED deleteCalls
    /\ UNCHANGED <<inputs, pc, resourceDiffs, scanErr, rangeNs, nsIdx, namespace,
                   response, outputBuffer, listCalls, returned>>

\* FormatOutputFromMap(namespace, resourceDiffs, opts); response[namespace] = resourceDiffs
StoreScoped ==
    /\ pc = "scopedTypes"
    /\ rangeTypes = {}
    /\ outputBuffer' = Append(outputBuffer,
                          [namespace |-> namespace, data |-> resourceDiffs])
    /\ response' = Put(response, namespace, resourceDiffs)
    /\ nsIdx' = nsIdx + 1
    /\ pc' = "scopedLoop"
    /\ UNCHANGED <<inputs, resourceDiffs, scanErr, rangeNs, namespace, rangeTypes,
                   listCalls, deleteCalls, returned>>

LoopsEnded ==
    IF AllNamespacesMode
    THEN pc = "globalLoop" /\ rangeNs = {}
    ELSE pc \in {"start", "scopedLoop"} /\ nsIdx > Len(namespaces)

\* json.MarshalIndent(response): its error is the one error returned
Marshal ==
    /\ LoopsEnded
    /\ \E marshalErr \in BOOLEAN :
          returned' = IF marshalErr THEN "error" ELSE "ok"
    /\ pc' = "done"
    /\ UNCHANGED <<inputs, resourceDiffs, scanErr, rangeNs, nsIdx, namespace,
                   rangeTypes, response, outputBuffer, listCalls, deleteCalls>>

Next ==
    \/ ScanAll
    \/ RangeNamespace
    \/ DeleteWithFinalizer
    \/ StoreNamespace
    \/ ScanNamespace
    \/ DeletePlain
    \/ StoreScoped
    \/ Marshal

----------------------------------------------------------------------------
(* The inputs.                                                             *)

Namespaces == <<"ns1", "ns2">>

ObjectNames == <<"a", "b">>

\* "v1", "apps/v1" and a string that does not parse
GroupVersions == {<<"v1">>, <<"apps", "v1">>, <<"a", "b", "c">>}

\* two namespaced and listable resources, a cluster-scoped one, and a
\* namespaced one without the list verb
ResourceKinds ==
    {[Name |-> "configmaps", Namespaced |-> TRUE, Verbs |-> <<"get", "list">>],
     [Name |-> "secrets", Namespaced |-> TRUE, Verbs |-> <<"list">>],
     [Name |-> "nodes", Namespaced |-> FALSE, Verbs |-> <<"get", "list">>],
     [Name |-> "bindings", Namespaced |-> TRUE, Verbs |-> <<"create">>]}

Kind(name) == CHOOSE r \in ResourceKinds : r.Name = name

ResourceLists ==
    {<<Kind("configmaps")>>, <<Kind("nodes"), Kind("secrets")>>, <<Kind("bindings")>>}

\* the resources of a group whose group/version does not parse are never read
ApiResourceLists ==
    {l \in {[GroupVersion |-> gv, APIResources |-> rs] :
                gv \in GroupVersions, rs \in ResourceLists} :
        ParseGroupVersion(l.GroupVersion).err => l.APIResources[1].Name = "configmaps"}

RECURSIVE SeqsUpTo(_, _)
SeqsUpTo(S, n) ==
    IF n = 0 THEN {<<>>}
    ELSE LET shorter == SeqsUpTo(S, n - 1)
         IN  shorter \cup {Append(s, x) : s \in shorter, x \in S}

\* a catalog names each group/version once
Catalogs ==
    {c \in SeqsUpTo(ApiResourceLists, MaxGroups) :
        \A i, j \in 1..Len(c) : i /= j => c[i].GroupVersion /= c[j].GroupVersion}

\* the group/version/resources of the catalog that have namespaced objects
\* a list call can return
ListableGVRs(catalog) ==
    {WithResource(ParseGroupVersion(catalog[i].GroupVersion),
                  catalog[i].APIResources[j].Name) :
        <<i, j>> \in {p \in (1..Len(catalog)) \X (1..Cardinality(ResourceKinds)) :
                        /\ p[2] <= Len(catalog[p[1]].APIResources)
                        /\ ~ParseGroupVersion(catalog[p[1]].GroupVersion).err
                        /\ catalog[p[1]].APIResources[p[2]].Namespaced
                        /\ Contains(catalog[p[1]].APIResources[p[2]].Verbs, "list")}}

LabelSets ==
    {EmptyMap, [k \in {"kor/used"} |-> "true"], [k \in {"kor/used"} |-> "false"]}

\* every combination of labels, filter results, finalizers and deletion timestamp
Metadata ==
    [labels : LabelSets, excludedLabel : BOOLEAN, includedAge : BOOLEAN,
     finalizers : {<<>>, <<"example.com/hold">>},
     deletionTimestamp : {Nil, "2024-01-01T00:00:00Z"}]

\* a pending-deletion candidate, and the same marked in use
Profiles ==
    {[labels |-> EmptyMap, excludedLabel |-> FALSE, includedAge |-> TRUE,
      finalizers |-> <<"example.com/hold">>,
      deletionTimestamp |-> "2024-01-01T00:00:00Z"],
     [labels |-> [k \in {"kor/used"} |-> "true"], excludedLabel |-> FALSE,
      includedAge |-> TRUE, finalizers |-> <<"example.com/hold">>,
      deletionTimestamp |-> "2024-01-01T00:00:00Z"]}

Object(gvr, ns, name, m) ==
    [gvr |-> gvr, namespace |-> ns, name |-> name, labels |-> m.labels,
     excludedLabel |-> m.excludedLabel, includedAge |-> m.includedAge,
     finalizers |-> m.finalizers, deletionTimestamp |-> m.deletionTimestamp]

ObjectsOf(gvrs, names, metadata) ==
    {Object(gvr, ns, name, m) :
        gvr \in gvrs, ns \in Range(Namespaces), name \in names, m \in metadata}

Key(o) == <<o.gvr, o.namespace, o.name>>

RECURSIVE SetsUpTo(_, _)
SetsUpTo(S, n) ==
    IF n = 0 THEN {{}}
    ELSE LET smaller == SetsUpTo(S, n - 1)
         IN  smaller \cup {s \cup {x} : s \in smaller, x \in S}

\* a list call returns objects in the order of their keys
Rank(s, e) == CHOOSE i \in 1..Len(s) : s[i] = e

KeyBefore(a, b) ==
    \/ a.gvr.group = "" /\ b.gvr.group /= ""
    \/ /\ a.gvr.group = b.gvr.group
       /\ \/ a.gvr.resource = "configmaps" /\ b.gvr.resource /= "configmaps"
          \/ /\ a.gvr.resource = b.gvr.resource
             /\ \/ Rank(Namespaces, a.namespace) < Rank(Namespaces, b.namespace)
                \/ /\ a.namespace = b.namespace
                   /\ Rank(ObjectNames, a.name) < Rank(ObjectNames, b.name)

RECURSIVE InKeyOrder(_)
InKeyOrder(S) ==
    IF S = {} THEN <<>>
    ELSE LET first == CHOOSE o \in S : \A p \in S \ {o} : KeyBefore(o, p)
         IN  <<first>> \o InKeyOrder(S \ {first})

\* the clusters of the model: at most MaxObjects objects of the profiles above,
\* no two with the same key and no two marked in use, or one object of any
\* metadata
ObjectLists(gvrs) ==
    {InKeyOrder(S) :
        S \in {T \in SetsUpTo(ObjectsOf(gvrs, Range(ObjectNames), Profiles), MaxObjects) :
                 \A x, y \in T :
                    (Key(x) = Key(y) \/ (x.labels /= EmptyMap /\ y.labels /= EmptyMap)) => x = y}
              \cup {{o} : o \in ObjectsOf(gvrs, {ObjectNames[1]}, Metadata)}}

IncludeExcludeOptions ==
    {[IncludeListStr |-> <<>>, ExcludeListStr |-> <<>>],
     [IncludeListStr |-> <<"ns1", "ns2">>, ExcludeListStr |-> <<>>],
     [IncludeListStr |-> <<>>, ExcludeListStr |-> <<"ns2">>]}

\* SetNamespaceList: the included namespaces when an include list is given,
\* every namespace but the excluded ones otherwise
SetNamespaceList(lists) ==
    IF Len(lists.IncludeListStr) > 0
    THEN SelectSeq(Namespaces, LAMBDA n : Contains(lists.IncludeListStr, n))
    ELSE SelectSeq(Namespaces, LAMBDA n : ~Contains(lists.ExcludeListStr, n))

Init ==
    /\ resourceTypes \in Catalogs
    /\ objects \in ObjectLists(ListableGVRs(resourceTypes))
    /\ listErrors \in SUBSET ListableGVRs(resourceTypes)
    /\ includeExcludeLists \in IncludeExcludeOptions
    /\ namespaces = SetNamespaceList(includeExcludeLists)
    /\ deleteFlag \in BOOLEAN
    /\ pc = "start"
    /\ resourceDiffs = EmptyMap
    /\ scanErr = FALSE
    /\ rangeNs = {}
    /\ nsIdx = 1
    /\ namespace = ""
    /\ rangeTypes = {}
    /\ response = EmptyMap
    /\ outputBuffer = <<>>
    /\ listCalls = <<>>
    /\ deleteCalls = <<>>
    /\ returned = "none"

Spec == Init /\ [][Next]_vars

----------------------------------------------------------------------------
(* What the properties are stated in: the cluster and the catalog as given, *)
(* read without the scan's own operators.                                  *)

ObjectSet == Range(objects)

AllNamespaces == Range(Namespaces)

AllTypes == {r.Name : r \in ResourceKinds}

AllNames == Range(ObjectNames)

Lookup(m, ns, t) == IF ns \in DOMAIN m THEN Get(m[ns], t, <<>>) ELSE <<>>

\* the names the response holds under a namespace and a resource type
Reported(ns, t) == Lookup(response, ns, t)

\* Q(namespace, resource type, names) of every name list of the response
EachReported(Q(_, _, _)) ==
    \A ns \in DOMAIN response : \A t \in DOMAIN response[ns] :
        Q(ns, t, response[ns][t])

\* Q(namespace, resource type, names) of every name list the scan being
\* processed returned
EachAccumulated(Q(_, _, _)) ==
    IF AllNamespacesMode
    THEN \A ns \in DOMAIN resourceDiffs : \A t \in DOMAIN resourceDiffs[ns] :
            Q(ns, t, resourceDiffs[ns][t])
    ELSE \A t \in DOMAIN resourceDiffs : Q(namespace, t, resourceDiffs[t])

MarkedUsed(o) == "kor/used" \in DOMAIN o.labels /\ o.labels["kor/used"] = "true"

PassesFilters(o) == ~MarkedUsed(o) /\ ~o.excludedLabel /\ o.includedAge

HasFinalizerAndDeletion(o) == o.finalizers /= <<>> /\ o.deletionTimestamp /= Nil

\* the objects of a name under a namespace and a resource type name that
\* satisfy P
Objects(ns, t, n, P(_)) ==
    {o \in ObjectSet : o.namespace = ns /\ o.gvr.resource = t /\ o.name = n /\ P(o)}

Malformed(i) == Len(resourceTypes[i].GroupVersion) > 2

ScanFails == \E i \in 1..Len(resourceTypes) : Malformed(i)

\* group i is in front of the first group/version that does not parse
Reached(i) == \A k \in 1..i : ~Malformed(k)

GvrOf(i, j) ==
    LET gv == resourceTypes[i].GroupVersion
    IN  [group |-> IF Len(gv) = 2 THEN gv[1] ELSE "",
         version |-> gv[Len(gv)],
         resource |-> resourceTypes[i].APIResources[j].Name]

NamespacedAndListable(i, j) ==
    LET r == resourceTypes[i].APIResources[j]
    IN  r.Namespaced /\ "list" \in Range(r.Verbs)

\* the object's resource type is listed by a scan, and the list call succeeds
Listed(o) ==
    /\ o.gvr \notin listErrors
    /\ \E i \in 1..Len(resourceTypes) :
          /\ Reached(i)
          /\ \E j \in 1..Len(resourceTypes[i].APIResources) :
                NamespacedAndListable(i, j) /\ GvrOf(i, j) = o.gvr

----------------------------------------------------------------------------
(* C2: an object labelled kor/used = "true" contributes no name to the scan *)
(* result or to the response, whatever its finalizers, deletion timestamp, *)
(* exclusion labels and age: under every namespace and resource type, a    *)
(* name occurs at most as often as there are objects of that name,         *)
(* namespace and type that are not labelled so.                            *)
C2_UsedNeverReported ==
    LET Q(ns, t, names) ==
            \A n \in Range(names) :
                Count(names, n)
                    <= Cardinality(Objects(ns, t, n, LAMBDA o : ~MarkedUsed(o)))
    IN  EachReported(Q) /\ EachAccumulated(Q)

\* a finished all-namespaces run over a cluster that holds an object marked
\* in use that is otherwise a listed pending-deletion candidate, beside a
\* reported one: the marked object's name is not in the response
C2_Witness ==
    /\ pc = "done"
    /\ AllNamespacesMode
    /\ response /= EmptyMap
    /\ \E o \in ObjectSet :
          /\ MarkedUsed(o) /\ ~o.excludedLabel /\ o.includedAge
          /\ HasFinalizerAndDeletion(o)
          /\ Listed(o)
          /\ Contains(namespaces, o.namespace)
          /\ Count(Reported(o.namespace, o.gvr.resource), o.name) = 0

(* C6: an object without finalizers or without a deletion timestamp        *)
(* contributes no name to the scan result or to the response, and          *)
(* CheckFinalizers is true exactly for a non-empty finalizer list with a   *)
(* deletion timestamp.                                                     *)
C6_NotPendingNeverReported ==
    /\ \A o \in ObjectSet :
          CheckFinalizers(o.finalizers, o.deletionTimestamp)
              = (Len(o.finalizers) > 0 /\ o.deletionTimestamp /= Nil)
    /\ LET Q(ns, t, names) ==
               \A n \in Range(names) :
                   Count(names, n)
                       <= Cardinality(Objects(ns, t, n, HasFinalizerAndDeletion))
       IN  EachReported(Q) /\ EachAccumulated(Q)

\* a finished scoped run over a cluster that holds a listed object that
\* passes the filters and holds a finalizer but no deletion timestamp: its
\* namespace is in the response and its name is not
C6_Witness ==
    /\ pc = "done"
    /\ ~AllNamespacesMode
    /\ \E o \in ObjectSet :
          /\ PassesFilters(o)
          /\ o.finalizers /= <<>> /\ o.deletionTimestamp = Nil
          /\ Listed(o)
          /\ o.namespace \in DOMAIN response
          /\ Count(Reported(o.namespace, o.gvr.resource), o.name) = 0

(* C9: no delete call is made when the delete flag is unset; when it is    *)
(* set, every (namespace, resource type) group of the response has had     *)
(* exactly one delete call, with the group's names and namespace, made     *)
(* with DeleteResourceWithFinalizer in the all-namespaces mode and with    *)
(* DeleteResource in the per-namespace mode; a delete call that returns an *)
(* error does not keep the other groups and namespaces from theirs.        *)
C9_DeleteCalls ==
    /\ ~deleteFlag => deleteCalls = <<>>
    /\ \A i \in 1..Len(deleteCalls) :
          LET c == deleteCalls[i]
          IN  /\ c.fn = IF AllNamespacesMode THEN "DeleteResourceWithFinalizer"
                                             ELSE "DeleteResource"
              /\ \A j \in 1..Len(deleteCalls) :
                    (deleteCalls[j].namespace = c.namespace
                        /\ deleteCalls[j].resourceType = c.resourceType) => j = i
              /\ IF c.namespace \in DOMAIN response
                 THEN /\ c.resourceType \in DOMAIN response[c.namespace]
                      /\ c.names = response[c.namespace][c.resourceType]
                 ELSE /\ c.namespace = namespace
                      /\ pc \in {"globalTypes", "scopedTypes"}
    /\ (pc = "done" /\ deleteFlag) =>
          EachReported(LAMBDA ns, t, names :
              \E i \in 1..Len(deleteCalls) :
                  /\ deleteCalls[i].namespace = ns
                  /\ deleteCalls[i].resourceType = t)

\* a finished run with the delete flag set in which a delete call returned an
\* error and a later call was made for a group of another namespace
C9_Witness ==
    /\ pc = "done"
    /\ deleteFlag
    /\ \E i, j \in 1..Len(deleteCalls) :
          /\ i < j
          /\ deleteCalls[i].err
          /\ deleteCalls[i].namespace /= deleteCalls[j].namespace

\* the cluster in which every resource whose list call fails lists, without
\* an error, as empty
EmptiedCluster ==
    [objects |-> SelectSeq(objects, LAMBDA o : o.gvr \notin listErrors),
     listErrors |-> {}]

Suffix(s, n) == SubSeq(s, Len(s) - n + 1, Len(s))

(* C7: a list call that fails does not end the scan and gives it no error: *)
(* the scan returns the map, the error and the list calls it would return  *)
(* had every failing resource type listed as empty, and its error is set   *)
(* only for a group/version that does not parse.                           *)
C7_ListFailureSkipsType ==
    /\ (AllNamespacesMode /\ pc /= "start") =>
          LET r == getResourcesWithFinalizersPendingDeletion(
                       EmptiedCluster, resourceTypes)
          IN  /\ resourceDiffs = r.pending
              /\ scanErr = r.err
              /\ listCalls = r.calls
    /\ (~AllNamespacesMode /\ (pc = "scopedTypes" \/ nsIdx > 1)) =>
          LET r == getNamespacedResourcesWithFinalizersPendingDeletion(
                       EmptiedCluster, namespace, resourceTypes)
          IN  /\ resourceDiffs = r.pending
              /\ scanErr = r.err
              /\ Len(r.calls) <= Len(listCalls)
              /\ Suffix(listCalls, Len(r.calls)) = r.calls
    /\ scanErr => ScanFails

\* a finished run in which a list call failed for a resource that has
\* objects, a later list call succeeded, and an object of that later
\* resource is in the response
C7_Witness ==
    /\ pc = "done"
    /\ \E p \in ObjectSet : p.gvr \in listErrors
    /\ \E i, j \in 1..Len(listCalls) :
          /\ i < j
          /\ listCalls[i].gvr \in listErrors
          /\ listCalls[j].gvr \notin listErrors
          /\ \E o \in ObjectSet :
                /\ o.gvr = listCalls[j].gvr
                /\ Count(Reported(o.namespace, o.gvr.resource), o.name) > 0

\* the list calls of one scan at a scope: one for each namespaced resource
\* with the list verb of the groups in front of the first group/version that
\* does not parse, in catalog order
RECURSIVE ExpectedCallsFrom(_, _, _)
ExpectedCallsFrom(i, j, scope) ==
    IF i > Len(resourceTypes) \/ Malformed(i) THEN <<>>
    ELSE IF j > Len(resourceTypes[i].APIResources)
         THEN ExpectedCallsFrom(i + 1, 1, scope)
    ELSE (IF NamespacedAndListable(i, j)
          THEN <<[gvr |-> GvrOf(i, j), namespace |-> scope]>>
          ELSE <<>>) \o ExpectedCallsFrom(i, j + 1, scope)

ExpectedCalls(scope) == ExpectedCallsFrom(1, 1, scope)

RECURSIVE ExpectedScopedCalls(_)
ExpectedScopedCalls(k) ==
    IF k > Len(namespaces) THEN <<>>
    ELSE ExpectedCalls(namespaces[k]) \o ExpectedScopedCalls(k + 1)

\* every name of a name list is the name of an object of the list's
\* namespace and resource type name
NamesOfTheNamespace(ns, t, names) ==
    \A n \in Range(names) : Objects(ns, t, n, LAMBDA o : TRUE) /= {}

\* every list call made is for a namespaced resource with the list verb, at
\* the all-namespaces scope in that mode and at a target namespace otherwise
CallsOnlyListable ==
    \A k \in 1..Len(listCalls) :
        /\ \E i \in 1..Len(resourceTypes) :
              \E j \in 1..Len(resourceTypes[i].APIResources) :
                 /\ ~Malformed(i)
                 /\ NamespacedAndListable(i, j)
                 /\ GvrOf(i, j) = listCalls[k].gvr
        /\ IF AllNamespacesMode THEN listCalls[k].namespace = NamespaceAll
           ELSE Contains(namespaces, listCalls[k].namespace)

(* C10 as amended: a list call is made only for a namespaced resource with *)
(* the list verb; the all-namespaces scan lists each such resource of the  *)
(* groups in front of the first group/version that does not parse exactly  *)
(* once, at the all-namespaces scope, and the per-namespace mode lists     *)
(* each of them exactly once per target namespace, at that namespace's     *)
(* scope, in catalog order; every reported name is the name of an object   *)
(* of the namespace it is reported under.                                  *)
C10_ListCalls ==
    /\ CallsOnlyListable
    /\ (AllNamespacesMode /\ pc /= "start") => listCalls = ExpectedCalls(NamespaceAll)
    /\ (~AllNamespacesMode /\ pc = "done") => listCalls = ExpectedScopedCalls(1)
    /\ EachReported(NamesOfTheNamespace)
    /\ EachAccumulated(NamesOfTheNamespace)

\* a finished run that listed the resources of a group and then met a
\* group/version that does not parse, whose namespaced resource with the
\* list verb it never listed
C10_Witness ==
    /\ pc = "done"
    /\ Len(listCalls) >= 1
    /\ \E i \in 1..Len(resourceTypes) :
          /\ Malformed(i)
          /\ \E j \in 1..Len(resourceTypes[i].APIResources) : NamespacedAndListable(i, j)
          /\ \A k \in 1..Len(listCalls) :
                listCalls[k].gvr.resource /= resourceTypes[i].APIResources[1].Name

(* C10 as claimed: every namespaced resource with the list verb of the     *)
(* catalog (of a group whose group/version parses) is listed exactly once  *)
(* by the all-namespaces scan, and once per target namespace otherwise.    *)
C10_EveryTypeListedOnce ==
    /\ CallsOnlyListable
    /\ (pc = "done") =>
          \A i \in 1..Len(resourceTypes) :
             \A j \in 1..Len(resourceTypes[i].APIResources) :
                (~Malformed(i) /\ NamespacedAndListable(i, j)) =>
                   \A scope \in IF AllNamespacesMode THEN {NamespaceAll}
                                ELSE Range(namespaces) :
                      Count(listCalls, [gvr |-> GvrOf(i, j), namespace |-> scope]) = 1

\* the namespaces of which the cluster holds a listed object that passes the
\* filters and has a finalizer and a deletion timestamp
NamespacesWithPending ==
    {o.namespace : o \in {x \in ObjectSet :
        PassesFilters(x) /\ HasFinalizerAndDeletion(x) /\ Listed(x)}}

NonEmptyNames(ns, t, names) == names /= <<>>

(* C5 as amended: in the per-namespace mode the keys of the final response *)
(* are the target namespaces when the scans return no error and none when  *)
(* they return one, whether or not an object matched or a resource was     *)
(* listed; in the all-namespaces mode they are the target namespaces of    *)
(* which the scan accumulated at least one name; in both modes no resource *)
(* type is a key of an inner mapping with an empty name list.              *)
C5_ResponseKeys ==
    /\ (pc = "done" /\ ~AllNamespacesMode) =>
          DOMAIN response = IF ScanFails THEN {} ELSE Range(namespaces)
    /\ (pc = "done" /\ AllNamespacesMode) =>
          DOMAIN response = NamespacesWithPending \cap Range(namespaces)
    /\ (pc /= "start" /\ AllNamespacesMode) =>
          /\ DOMAIN resourceDiffs = NamespacesWithPending
          /\ \A ns \in DOMAIN resourceDiffs : DOMAIN resourceDiffs[ns] /= {}
    /\ EachReported(NonEmptyNames)
    /\ EachAccumulated(NonEmptyNames)

\* a finished per-namespace run whose response holds a namespace with an
\* empty inner mapping beside one with a name list
C5_Witness ==
    /\ pc = "done"
    /\ ~AllNamespacesMode
    /\ \E ns \in DOMAIN response : DOMAIN response[ns] = {}
    /\ \E ns \in DOMAIN response : DOMAIN response[ns] /= {}
    /\ \E k \in 1..Len(listCalls) : TRUE

(* C5 as claimed: a namespace is a key of the final response exactly when  *)
(* it is a target namespace under which at least one resource type was     *)
(* listed, also when no object of it matched; and no resource type with an *)
(* empty name list is a key of an inner mapping.                           *)
C5_KeyIffScanned ==
    /\ (pc = "done" /\ ~ScanFails) =>
          \A ns \in AllNamespaces :
             ns \in DOMAIN response <=>
                /\ Contains(namespaces, ns)
                /\ \E k \in 1..Len(listCalls) :
                      /\ listCalls[k].namespace \in {ns, NamespaceAll}
                      /\ listCalls[k].gvr \notin listErrors
    /\ EachReported(NonEmptyNames)

(* C1 as claimed: with the delete flag set, the name list the response     *)
(* holds for a namespace and resource type is the residual list the delete *)
(* call for that group returned, whether the call returned an error or not.*)
C1_ResidualStored ==
    DeleteRequested(deleteFlag) =>
        \A k \in 1..Len(deleteCalls) :
            deleteCalls[k].namespace \in DOMAIN response =>
                Reported(deleteCalls[k].namespace, deleteCalls[k].resourceType)
                    = deleteCalls[k].residual

(* C3 as claimed: in a finished run whose scans return no error, an object *)
(* of a target namespace that has a finalizer and a deletion timestamp,    *)
(* passes the filters and is of a listed resource type has its name        *)
(* exactly once in the list of its namespace and resource type name, also  *)
(* when two group/versions of the catalog have a resource of that name.    *)
C3_ReportedExactlyOnce ==
    (pc = "done" /\ ~ScanFails) =>
        \A o \in ObjectSet :
            (/\ PassesFilters(o)
             /\ HasFinalizerAndDeletion(o)
             /\ Listed(o)
             /\ Contains(namespaces, o.namespace)) =>
                Count(Reported(o.namespace, o.gvr.resource), o.name) = 1

\* the (namespace, resource type, name) triples of a mapping
Triples(m) ==
    {<<ns, t, m[ns][t][k]>> : <<ns, t, k>> \in
        {x \in (DOMAIN m) \X AllTypes \X (1..(MaxObjects * MaxGroups)) :
            /\ x[2] \in DOMAIN m[x[1]]
            /\ x[3] <= Len(m[x[1]][x[2]])}}

(* C4 as claimed: a finished per-namespace run without deletion whose      *)
(* target namespaces are all the namespaces reports the (namespace,        *)
(* resource type, name) triples that the all-namespaces mode reports on    *)
(* the same cluster and catalog.                                           *)
C4_ModesAgree ==
    (/\ pc = "done"
     /\ ~AllNamespacesMode
     /\ ~DeleteRequested(deleteFlag)
     /\ Range(namespaces) = AllNamespaces) =>
        Triples(response)
            = Triples(getResourcesWithFinalizersPendingDeletion(Cluster, resourceTypes).pending)

(* C8 as claimed: when the scan of a scope returns an error, the scope is  *)
(* skipped: no name the scan accumulated reaches the response and no       *)
(* delete call is made for it, the scope being every namespace in the      *)
(* all-namespaces mode and the scanned namespace otherwise; the namespaces *)
(* after a skipped one are scanned all the same.                           *)
C8_FailedScanSkipped ==
    /\ scanErr =>
          IF AllNamespacesMode
          THEN response = EmptyMap /\ deleteCalls = <<>>
          ELSE /\ namespace \notin DOMAIN response
               /\ \A k \in 1..Len(deleteCalls) : deleteCalls[k].namespace /= namespace
    /\ (pc = "done" /\ ~AllNamespacesMode) => nsIdx = Len(namespaces) + 1

====
